---- MODULE Spec2Model ----
(***************************************************************************)
(* Model of src/BWT/BWT.py: class BWT (Burrows-Wheeler transform, its      *)
(* inversion by rank-tagged columns, suffix array and FM-index search).    *)
(*                                                                         *)
(* Symbols are integers ordered as Python orders the characters:           *)
(* 0 is '$', 1 is 'A', 2 is 'B'.  A str is a sequence of symbols.  A tag   *)
(* item + str(count) is the pair <<item, count>>: the first character of   *)
(* a tag is its symbol and the rest is the decimal count, so two tags are  *)
(* equal exactly when the pairs are.  Offsets keep Python's 0-based values;*)
(* only positions inside TLA+ sequences are 1-based.                       *)
(***************************************************************************)
EXTENDS Integers, Sequences, FiniteSets, TLC

VARIABLES
    seqOriginal,                     \* self.seqOriginal
    listaSequenciaOriginal,          \* self.listaSequenciaOriginal
    dicionarioOcorrencias,           \* self.dicionarioOcorrencias
    suffix_array,                    \* attribute self.suffix_array
    seq,                             \* the driver's sequence argument
    matriz,                          \* the driver's rotation matrix
    bwt,                             \* the driver's BWT string
    listaConcatenadaPrimeiraColuna,  \* tagged first column
    listaConcatenadaUltimaColuna,    \* tagged last column
    letra,                           \* tag carried through the recursion
    profundidade,                    \* live frames of obterSequenciaOriginal
    inversoes,                       \* inversions started on this instance
    padrao,                          \* argument of procuraPadraoBWT
    pattern,                         \* its local pattern when the call ended
    top,                             \* its local top when the call ended
    bottom,                          \* its local bottom when the call ended
    ret,                             \* outcome of the last call
    pc                               \* position of the driver

vars == <<seqOriginal, listaSequenciaOriginal, dicionarioOcorrencias,
          suffix_array, seq, matriz, bwt, listaConcatenadaPrimeiraColuna,
          listaConcatenadaUltimaColuna, letra, profundidade, inversoes,
          padrao, pattern, top, bottom, ret, pc>>

(***************************************************************************)
(* Bounds.                                                                 *)
(***************************************************************************)
MaxLen == 3          \* longest sequence handed to the instance
MaxPadrao == 3       \* longest search pattern
MaxOutra == 1        \* longest sequence, other than the one the instance
                     \* was built with, that a later call is given
MaxInversoes == 2    \* inversions run on one instance
MaxProfundidade == 6 \* frames the interpreter allows before RecursionError

Sentinela == 0       \* '$'
Alfabeto == {Sentinela, 1, 2}

Strs(n) == UNION {[1..k -> Alfabeto] : k \in 0..n}

(***************************************************************************)
(* Python helpers.                                                         *)
(***************************************************************************)
\* a < b on str (or on lists of one-character str): lexicographic, a proper
\* prefix sorts first
RECURSIVE StrLess(_, _)
StrLess(a, b) ==
    IF a = <<>> THEN b # <<>>
    ELSE IF b = <<>> THEN FALSE
    ELSE IF a[1] # b[1] THEN a[1] < b[1]
    ELSE StrLess(Tail(a), Tail(b))

\* sorted(xs, key = k): stable ascending sort, chaves[i] is the key of xs[i]
sorted(xs, chaves) ==
    LET n == Len(xs)
        lugar(k) == 1 + Cardinality({j \in 1..n :
                        \/ StrLess(chaves[j], chaves[k])
                        \/ (chaves[j] = chaves[k] /\ j < k)})
    IN [p \in 1..n |-> xs[CHOOSE k \in 1..n : lugar(k) = p]]

\* s.count(c)
Count(s, c) == Cardinality({i \in 1..Len(s) : s[i] = c})

\* set(s)
Simbolos(s) == {s[i] : i \in 1..Len(s)}

(***************************************************************************)
(* Transform.                                                              *)
(***************************************************************************)
\* one turn of the loop of criarMatriz: seq = seq[-1] + seq[:len(seq)-1]
RodarDireita(s) == <<s[Len(s)]>> \o SubSeq(s, 1, Len(s) - 1)

RECURSIVE criarMatrizLoop(_, _, _)
criarMatrizLoop(s, m, faltam) ==
    IF faltam = 0 THEN m
    ELSE criarMatrizLoop(RodarDireita(s), Append(m, s), faltam - 1)

criarMatriz(s) == criarMatrizLoop(s, <<>>, Len(s))

ordenarMatriz(m) == sorted(m, m)

UltimoSimbolo(linha) == linha[Len(linha)]

\* the first symbol of each row taken for the last
construirBWTPrimeiraColuna(m) == [i \in 1..Len(m) |-> m[i][1]]

construirBWT(m) == [i \in 1..Len(m) |-> UltimoSimbolo(m[i])]

\* sorted(range(len(seq)), key=lambda i: seq[i:])
calcularSuffixArray(s) ==
    sorted([i \in 1..Len(s) |-> i - 1],
           [i \in 1..Len(s) |-> SubSeq(s, i, Len(s))])

(***************************************************************************)
(* Outcomes of a call.                                                     *)
(***************************************************************************)
Nada == [op |-> "nenhuma", status |-> "ok", val |-> <<>>]
Ok(o, v) == [op |-> o, status |-> "ok", val |-> v]
Erro(o, e) == [op |-> o, status |-> e, val |-> <<>>]

\* self.suffix_array right after construction is the bound method
Metodo == [metodo |-> TRUE, lista |-> <<>>]
Lista(l) == [metodo |-> FALSE, lista |-> l]

(***************************************************************************)
(* classe = BWT(seq)                                                       *)
(***************************************************************************)
Init ==
    /\ seq \in Strs(MaxLen)
    /\ seqOriginal = seq
    /\ listaSequenciaOriginal = <<>>
    /\ dicionarioOcorrencias = <<>>   \* no key until criarDicionarioOcorrencias
    /\ suffix_array = Metodo
    /\ matriz = <<>>
    /\ bwt = <<>>
    /\ listaConcatenadaPrimeiraColuna = <<>>
    /\ listaConcatenadaUltimaColuna = <<>>
    /\ letra = <<Sentinela, 0>>
    /\ profundidade = 0
    /\ inversoes = 0
    /\ padrao = <<>>
    /\ pattern = <<>>
    /\ top = 0
    /\ bottom = 0
    /\ ret = Nada
    /\ pc = "inicio"

instancia == <<seqOriginal, listaSequenciaOriginal, dicionarioOcorrencias,
               suffix_array>>
locaisInversao == <<listaConcatenadaPrimeiraColuna,
                    listaConcatenadaUltimaColuna, letra, profundidade>>
locaisProcura == <<padrao, pattern, top, bottom>>

\* matriz_nao_ordenada = classe.criarMatriz(seq)
CriarMatriz ==
    /\ pc = "inicio"
    /\ matriz' = criarMatriz(seq)
    /\ ret' = Ok("criarMatriz", <<>>)
    /\ pc' = "matriz"
    /\ UNCHANGED <<instancia, seq, bwt, locaisInversao, inversoes,
                   locaisProcura>>

\* matriz_ordenada = classe.ordenarMatriz(matriz_nao_ordenada)
OrdenarMatriz ==
    /\ pc = "matriz"
    /\ matriz' = ordenarMatriz(matriz)
    /\ ret' = Ok("ordenarMatriz", <<>>)
    /\ pc' = "ordenada"
    /\ UNCHANGED <<instancia, seq, bwt, locaisInversao, inversoes,
                   locaisProcura>>

\* bwt = classe.construirBWT(matriz_ordenada)
ConstruirBWT ==
    /\ pc = "ordenada"
    /\ bwt' = construirBWT(matriz)
    /\ ret' = Ok("construirBWT", bwt')
    /\ pc' = "bwt"
    /\ UNCHANGED <<instancia, seq, matriz, locaisInversao, inversoes,
                   locaisProcura>>

\* classe.suffix_array(s): the first call replaces the method by the list it
\* returns, every later call finds a list where the method was
suffix_arrayCall(s) ==
    IF suffix_array.metodo
    THEN /\ suffix_array' = Lista(calcularSuffixArray(s))
         /\ ret' = Ok("suffix_array", calcularSuffixArray(s))
    ELSE /\ suffix_array' = suffix_array
         /\ ret' = Erro("suffix_array", "TypeError")

\* arraySufixos = classe.suffix_array(seq)
SuffixArray ==
    /\ pc = "bwt"
    /\ suffix_arrayCall(seq)
    /\ pc' = "sufixos"
    /\ UNCHANGED <<seqOriginal, listaSequenciaOriginal, dicionarioOcorrencias,
                   seq, matriz, bwt, locaisInversao, inversoes, locaisProcura>>

(***************************************************************************)
(* Inversion.                                                              *)
(***************************************************************************)
criarPrimeiraColuna(b) == sorted(b, [i \in 1..Len(b) |-> <<b[i]>>])

criarUltimaColuna(b) == b

\* {letra: -1 for letra in bwt}
criarDicionarioOcorrencias(b) == [c \in Simbolos(b) |-> -1]

\* e is the pair of the counters and of the list being filled
decidirCaracter(item, chave, e) ==
    IF item = chave
    THEN LET d == [e.dic EXCEPT ![chave] = @ + 1]
         IN [dic |-> d, lista |-> Append(e.lista, <<item, d[chave]>>)]
    ELSE e

\* for chave in self.dicionarioOcorrencias.keys(): decidirCaracter(...)
RECURSIVE PorChave(_, _, _)
PorChave(item, chaves, e) ==
    IF chaves = {} THEN e
    ELSE LET chave == CHOOSE c \in chaves : TRUE
         IN PorChave(item, chaves \ {chave}, decidirCaracter(item, chave, e))

RECURSIVE PorItem(_, _)
PorItem(itens, e) ==
    IF itens = <<>> THEN e
    ELSE PorItem(Tail(itens), PorChave(Head(itens), DOMAIN e.dic, e))

\* the list filled without the counters going back to -1
preencherListaSemRepor(listaSequencias, dic, listaConcatenada) ==
    PorItem(listaSequencias, [dic |-> dic, lista |-> listaConcatenada])

\* the counters of every key go back to -1 when the list is filled
preencherLista(listaSequencias, dic, listaConcatenada) ==
    LET e == PorItem(listaSequencias, [dic |-> dic, lista |-> listaConcatenada])
    IN [dic |-> [c \in DOMAIN e.dic |-> -1], lista |-> e.lista]

\* one frame of obterSequenciaOriginal: the scan of ultimaColuna from the
\* 1-based position indice on.  fim says the frame returned at line 233;
\* otherwise the scan ran off the column and the frame recurses (line 235).
RECURSIVE percorrer(_, _, _, _, _, _)
percorrer(indice, l, lista, comprimento, primeiraColuna, ultimaColuna) ==
    IF indice > Len(ultimaColuna)
    THEN [fim |-> FALSE, letra |-> l, lista |-> lista]
    ELSE LET achou == ultimaColuna[indice] = l
             lista2 == IF achou THEN Append(lista, l[1]) ELSE lista
             l2 == IF achou THEN primeiraColuna[indice] ELSE l
         IN IF Len(lista2) = comprimento
            THEN [fim |-> TRUE, letra |-> l2, lista |-> lista2]
            ELSE percorrer(indice + 1, l2, lista2, comprimento,
                           primeiraColuna, ultimaColuna)

\* the joined list returned without the final rotation
sequenciaSemRotacao(lista) == lista

\* seqOriginal[1:len(seqOriginal)] + seqOriginal[0]
sequenciaEmString(lista) == Tail(lista) \o <<Head(lista)>>

\* classe.criarDicionarioOcorrencias(bwt)
CriarDicionarioOcorrencias ==
    /\ pc = "bwt"
    /\ inversoes < MaxInversoes
    /\ dicionarioOcorrencias' = criarDicionarioOcorrencias(bwt)
    /\ inversoes' = inversoes + 1
    /\ ret' = Ok("criarDicionarioOcorrencias", <<>>)
    /\ pc' = "dicionario"
    /\ UNCHANGED <<seqOriginal, listaSequenciaOriginal, suffix_array, seq,
                   matriz, bwt, locaisInversao, locaisProcura>>

\* listaConcatenadaPrimeiraColuna = []
\* classe.preencherLista(primeiraColuna, listaConcatenadaPrimeiraColuna)
PreencherPrimeiraColuna ==
    /\ pc = "dicionario"
    /\ LET r == preencherLista(criarPrimeiraColuna(bwt),
                               dicionarioOcorrencias, <<>>)
       IN /\ dicionarioOcorrencias' = r.dic
          /\ listaConcatenadaPrimeiraColuna' = r.lista
    /\ ret' = Ok("preencherLista", <<>>)
    /\ pc' = "primeira"
    /\ UNCHANGED <<seqOriginal, listaSequenciaOriginal, suffix_array, seq,
                   matriz, bwt, listaConcatenadaUltimaColuna, letra,
                   profundidade, inversoes, locaisProcura>>

\* listaConcatenadaUltimaColuna = []
\* classe.preencherLista(ultimaColuna, listaConcatenadaUltimaColuna)
PreencherUltimaColuna ==
    /\ pc = "primeira"
    /\ LET r == preencherLista(criarUltimaColuna(bwt),
                               dicionarioOcorrencias, <<>>)
       IN /\ dicionarioOcorrencias' = r.dic
          /\ listaConcatenadaUltimaColuna' = r.lista
    /\ ret' = Ok("preencherLista", <<>>)
    /\ pc' = "ultima"
    /\ UNCHANGED <<seqOriginal, listaSequenciaOriginal, suffix_array, seq,
                   matriz, bwt, listaConcatenadaPrimeiraColuna, letra,
                   profundidade, inversoes, locaisProcura>>

\* what one frame entered with the tag l does to the instance and the driver
Frame(l) ==
    LET r == percorrer(1, l, listaSequenciaOriginal,
                       Len(listaConcatenadaUltimaColuna),
                       listaConcatenadaPrimeiraColuna,
                       listaConcatenadaUltimaColuna)
    IN /\ listaSequenciaOriginal' = r.lista
       /\ letra' = r.letra
       /\ IF r.fim
          THEN /\ profundidade' = 0
               /\ ret' = Ok("obterSequenciaOriginal", <<>>)
               /\ pc' = "obtida"
          ELSE /\ profundidade' = profundidade + 1
               /\ ret' = ret
               /\ pc' = "recursao"

\* classe.obterSequenciaOriginal('$0', comprimentoUltimaColuna, ...)
ObterSequenciaOriginal ==
    /\ pc = "ultima"
    /\ Frame(<<Sentinela, 0>>)
    /\ UNCHANGED <<seqOriginal, dicionarioOcorrencias, suffix_array, seq,
                   matriz, bwt, listaConcatenadaPrimeiraColuna,
                   listaConcatenadaUltimaColuna, inversoes, locaisProcura>>

\* self.obterSequenciaOriginal(letra, ...) at the end of a frame
Recursao ==
    /\ pc = "recursao"
    /\ profundidade < MaxProfundidade
    /\ Frame(letra)
    /\ UNCHANGED <<seqOriginal, dicionarioOcorrencias, suffix_array, seq,
                   matriz, bwt, listaConcatenadaPrimeiraColuna,
                   listaConcatenadaUltimaColuna, inversoes, locaisProcura>>

\* the recursion has no failure path: a walk that never collects
\* comprimentoUltimaColuna symbols ends when the interpreter runs out of frames
EsgotarRecursao ==
    /\ pc = "recursao"
    /\ profundidade = MaxProfundidade
    /\ profundidade' = 0
    /\ ret' = Erro("obterSequenciaOriginal", "RecursionError")
    /\ pc' = "falhou"
    /\ UNCHANGED <<instancia, seq, matriz, bwt,
                   listaConcatenadaPrimeiraColuna,
                   listaConcatenadaUltimaColuna, letra, inversoes,
                   locaisProcura>>

\* sequenciaOriginal = classe.SequenciaOriginalEmString()
SequenciaOriginalEmString ==
    /\ pc = "obtida"
    /\ ret' = IF listaSequenciaOriginal = <<>>
              THEN Erro("SequenciaOriginalEmString", "IndexError")
              ELSE Ok("SequenciaOriginalEmString",
                      sequenciaEmString(listaSequenciaOriginal))
    /\ pc' = "invertida"
    /\ UNCHANGED <<instancia, seq, matriz, bwt, locaisInversao, inversoes,
                   locaisProcura>>

\* the driver goes on with another sequence on the same instance
OutraSequencia ==
    /\ pc \in {"invertida", "falhou"}
    /\ inversoes < MaxInversoes
    /\ \E s \in {seqOriginal} \cup Strs(MaxOutra) : seq' = s
    /\ ret' = Nada
    /\ pc' = "inicio"
    /\ UNCHANGED <<instancia, matriz, bwt, locaisInversao, inversoes,
                   locaisProcura>>

NextInversao ==
    \/ CriarMatriz \/ OrdenarMatriz \/ ConstruirBWT
    \/ CriarDicionarioOcorrencias
    \/ PreencherPrimeiraColuna \/ PreencherUltimaColuna
    \/ ObterSequenciaOriginal \/ Recursao \/ EsgotarRecursao
    \/ SequenciaOriginalEmString
    \/ OutraSequencia

SpecInversao == Init /\ [][NextInversao]_vars

(***************************************************************************)
(* Search.                                                                 *)
(***************************************************************************)
\* count[c][i] as the loop of lines 296-299 leaves it
RECURSIVE contar(_, _, _)
contar(b, c, i) ==
    IF i = 0 THEN 0
    ELSE contar(b, c, i - 1) + (IF b[i] = c THEN 1 ELSE 0)

criarCount(b) == [c \in Simbolos(b) |-> [i \in 0..Len(b) |-> contar(b, c, i)]]

\* first index of each symbol in sorted(bwt)
criarFirstOccurrence(sorted_bwt) ==
    [c \in Simbolos(sorted_bwt) |->
        (CHOOSE i \in 1..Len(sorted_bwt) :
            /\ sorted_bwt[i] = c
            /\ \A j \in 1..(i - 1) : sorted_bwt[j] # c) - 1]

\* how the call ended: its outcome and the locals it ended with
Fim(st, p, t, b, v) ==
    [status |-> st, pattern |-> p, top |-> t, bottom |-> b, val |-> v]

\* the range translated without the final sort
traduzirSemOrdenar(sa, p, t, b) ==
    IF sa.metodo THEN Fim("TypeError", p, t, b, <<>>)
    ELSE IF b + 1 > Len(sa.lista) THEN Fim("IndexError", p, t, b, <<>>)
    ELSE Fim("ok", p, t, b, [k \in 1..(b - t + 1) |-> sa.lista[t + k]])

\* sorted([suffix_array[i] for i in range(top, bottom + 1)])
traduzir(sa, p, t, b) ==
    IF sa.metodo THEN Fim("TypeError", p, t, b, <<>>)
    ELSE IF b + 1 > Len(sa.lista) THEN Fim("IndexError", p, t, b, <<>>)
    ELSE LET escolhidos == [k \in 1..(b - t + 1) |-> sa.lista[t + k]]
         IN Fim("ok", p, t, b,
                sorted(escolhidos,
                       [k \in 1..Len(escolhidos) |-> <<escolhidos[k]>>]))

\* the while loop of lines 310-322
RECURSIVE pesquisaFM(_, _, _, _, _, _)
pesquisaFM(p, t, b, cnt, first_occurrence, sa) ==
    IF t <= b
    THEN IF p # <<>>
         THEN LET symbol == p[Len(p)]
                  resto == SubSeq(p, 1, Len(p) - 1)
              IN IF symbol \notin DOMAIN cnt
                 THEN Fim("KeyError", resto, t, b, <<>>)
                 ELSE IF cnt[symbol][b + 1] > cnt[symbol][t]
                 THEN pesquisaFM(resto,
                          first_occurrence[symbol] + cnt[symbol][t],
                          first_occurrence[symbol] + cnt[symbol][b + 1] - 1,
                          cnt, first_occurrence, sa)
                 ELSE Fim("ok", resto, t, b, <<>>)
         ELSE traduzir(sa, p, t, b)
    ELSE Fim("ok", p, t, b, <<>>)

\* lines 290-305: the BWT of self.seqOriginal and the two tables built from
\* it, each built once before the loop starts
tabelas(s) ==
    CHOOSE t \in {[bwt |-> b,
                   count |-> criarCount(b),
                   first_occurrence |->
                       criarFirstOccurrence(criarPrimeiraColuna(b))] :
                  b \in {construirBWT(ordenarMatriz(criarMatriz(s)))}} : TRUE

\* lines 292 and 308-322, given the tables
procuraPadraoBWT(p, t) ==
    pesquisaFM(p, 0, Len(t.bwt) - 1, t.count, t.first_occurrence,
               suffix_array)

\* classe.suffix_array(s) for the instance's own sequence or another one;
\* seq keeps the argument of the call that stored its list
SuffixArrayDe ==
    /\ pc \in {"inicio", "sufixos"}
    /\ \E s \in {seqOriginal} \cup Strs(MaxOutra) :
          /\ suffix_arrayCall(s)
          /\ seq' = IF suffix_array.metodo THEN s ELSE seq
    /\ pc' = "sufixos"
    /\ UNCHANGED <<seqOriginal, listaSequenciaOriginal, dicionarioOcorrencias,
                   matriz, bwt, locaisInversao, inversoes, locaisProcura>>

\* classe.procuraPadraoBWT(padrao): it reads the instance and changes nothing
\* of it
ProcuraPadraoBWT ==
    /\ pc \in {"inicio", "sufixos"}
    /\ \E t \in {tabelas(seqOriginal)}, p \in Strs(MaxPadrao) :
          \E r \in {procuraPadraoBWT(p, t)} :
             /\ padrao' = p
             /\ pattern' = r.pattern
             /\ top' = r.top
             /\ bottom' = r.bottom
             /\ ret' = [op |-> "procuraPadraoBWT", status |-> r.status,
                        val |-> r.val]
    /\ pc' = "procurou"
    /\ UNCHANGED <<instancia, seq, matriz, bwt, locaisInversao, inversoes>>

NextProcura == SuffixArrayDe \/ ProcuraPadraoBWT

SpecProcura == Init /\ [][NextProcura]_vars

NextTransform == CriarMatriz \/ OrdenarMatriz \/ ConstruirBWT \/ SuffixArray

SpecTransform == Init /\ [][NextTransform]_vars

(***************************************************************************)
(* Properties.                                                             *)
(***************************************************************************)
\* a sequence that ends with its single sentinel, every other symbol above it
Valida(s) ==
    /\ Len(s) >= 1
    /\ s[Len(s)] = Sentinela
    /\ Count(s, Sentinela) = 1
    /\ \A i \in 1..(Len(s) - 1) : s[i] > Sentinela

\* the elements of a finite set of integers in ascending order
EmOrdem(S) ==
    [k \in 1..Cardinality(S) |->
        CHOOSE x \in S : Cardinality({y \in S : y < x}) = k - 1]

\* brute-force scan: the offsets i with S[i : i + len(P)] == P
Oraculo(S, P) ==
    EmOrdem({i \in 0..(Len(S) - 1) :
                /\ i + Len(P) <= Len(S)
                /\ SubSeq(S, i + 1, i + Len(P)) = P})

\* the tags of a column: each symbol with the number of its earlier
\* occurrences in that column
Etiquetas(coluna) ==
    [i \in 1..Len(coluna) |->
        <<coluna[i],
          Cardinality({j \in 1..(i - 1) : coluna[j] = coluna[i]})>>]

\* a row shifted cyclically by one symbol to the left
RodarEsquerda(linha) == Tail(linha) \o <<Head(linha)>>

InversaoTerminou == pc \in {"invertida", "falhou"}

SufixosDeSeqOriginal == ~suffix_array.metodo /\ seq = seqOriginal

C2_Oraculo ==
    (/\ pc = "procurou" /\ SufixosDeSeqOriginal /\ Valida(seqOriginal)
     /\ Len(padrao) <= Len(seqOriginal)
     /\ Simbolos(padrao) \subseteq Simbolos(seqOriginal))
        => (ret.status = "ok" /\ ret.val = Oraculo(seqOriginal, padrao))

\* C3: for a sequence with a unique minimal terminal sentinel, every symbol
\* of the BWT is the symbol that cyclically precedes the suffix the suffix
\* array names at the same rank.
C3_LigacaoBWTSA ==
    (pc = "sufixos" /\ Valida(seq))
        => /\ ret = Ok("suffix_array", suffix_array.lista)
           /\ Len(suffix_array.lista) = Len(seq)
           /\ Len(bwt) = Len(seq)
           /\ \A i \in 1..Len(seq) :
                 bwt[i] = seq[((suffix_array.lista[i] - 1 + Len(seq))
                               % Len(seq)) + 1]

C3_Witness ==
    /\ pc = "sufixos" /\ Valida(seq)
    /\ Len(seq) = 3 /\ seq[1] # seq[2]
    /\ ~suffix_array.metodo

\* C4: a search that consumes a pattern symbol absent from the BWT of
\* seqOriginal ends normally and returns the empty list.
C4_SimboloDesconhecido ==
    (/\ pc = "procurou" /\ Len(pattern) < Len(padrao)
     /\ padrao[Len(pattern) + 1] \notin
            Simbolos(construirBWT(ordenarMatriz(criarMatriz(seqOriginal)))))
        => (ret.status = "ok" /\ ret.val = <<>>)

\* C5: the inversion of a string with zero or two sentinels ends in a
\* reconstruction error: it neither runs on nor returns a sequence.
C5_EntradaMalformada ==
    (/\ InversaoTerminou /\ inversoes = 1
     /\ Count(bwt, Sentinela) \in {0, 2})
        => ret.status = "ReconstructionError"

\* C6: the transform operations and suffix_array reject a sequence with no
\* sentinel or with more than one.
C6_ValidacaoDaSentinela ==
    (/\ pc \in {"matriz", "ordenada", "bwt", "sufixos"}
     /\ Count(seq, Sentinela) # 1)
        => ret.status = "InvalidSequenceError"

\* C7: with the suffix array of seqOriginal stored, the search of the empty
\* pattern consumes nothing, keeps the range 0..n-1 and returns all n
\* offsets in ascending order.
C7_PadraoVazio ==
    (pc = "procurou" /\ padrao = <<>> /\ SufixosDeSeqOriginal)
        => /\ ret = Ok("procuraPadraoBWT",
                       [k \in 1..Len(seqOriginal) |-> k - 1])
           /\ pattern = <<>>
           /\ top = 0
           /\ bottom = Len(seqOriginal) - 1

C7_Witness ==
    /\ pc = "procurou" /\ padrao = <<>> /\ SufixosDeSeqOriginal
    /\ Len(seqOriginal) = 3
    /\ suffix_array.lista # <<0, 1, 2>>
    /\ ret.val = <<0, 1, 2>>

\* C8: whatever inversions the instance ran before, inverting the BWT of a
\* valid sequence terminates and returns that sequence.
C8_InversaoDeterminista ==
    (InversaoTerminou /\ Valida(seq))
        => ret = Ok("SequenciaOriginalEmString", seq)

\* C9: the array through which a search translates its final range into
\* offsets is the suffix array of seqOriginal.
C9_ParCasado ==
    (/\ pc = "procurou"
     /\ (ret.status \in {"TypeError", "IndexError"} \/ ret.val # <<>>))
        => (/\ ~suffix_array.metodo
            /\ suffix_array.lista = calcularSuffixArray(seqOriginal))

\* C10: for the BWT of a valid sequence each preencherLista call leaves one
\* tag per row, counted from 0 within its own column, and the counters back
\* at -1; a tag names the same position in both columns: the row that ends
\* with it is the row that starts with it shifted by one symbol.
C10_UltimaPrimeira ==
    (pc \in {"primeira", "ultima"} /\ Valida(seq))
        => /\ \A c \in DOMAIN dicionarioOcorrencias :
                 dicionarioOcorrencias[c] = -1
           /\ listaConcatenadaPrimeiraColuna =
                 Etiquetas([i \in 1..Len(matriz) |-> matriz[i][1]])
           /\ Len(listaConcatenadaPrimeiraColuna) = Len(seq)
           /\ pc = "ultima" =>
                 /\ listaConcatenadaUltimaColuna = Etiquetas(bwt)
                 /\ Len(listaConcatenadaUltimaColuna) = Len(seq)
                 /\ \A i, j \in 1..Len(seq) :
                       listaConcatenadaPrimeiraColuna[i]
                           = listaConcatenadaUltimaColuna[j]
                       => matriz[j] = RodarEsquerda(matriz[i])

C10_Witness ==
    /\ pc = "ultima" /\ Valida(seq)
    /\ Len(seq) = 3 /\ seq[1] = seq[2]
    /\ \E j \in 1..3 : listaConcatenadaUltimaColuna[j] = <<seq[1], 1>>

====
